---- MODULE Spec2Model ----
(***************************************************************************)
(* Model of the chat turn pipeline of the P.A.T.C.H backend:               *)
(*   app/services/chat_service.py      ChatService.process_chat_message    *)
(*   app/services/context_injector.py  ContextInjectorService (Redis)      *)
(*   app/services/vector_store.py      VectorStoreService (ChromaDB)       *)
(*   app/core/config.py                Settings                            *)
(*                                                                         *)
(* Texts are TLA+ strings, so len(), concatenation and formatting are the  *)
(* real ones.  Token amounts (Python floats, len/4) are held in EIGHTHS of *)
(* a token: a character is 2 units.  The one extra unit is the rounding    *)
(* excess of the double product LLM_CONTEXT_WINDOW * (pct / 100), which is *)
(* positive and smaller than any quarter token (see WindowBudget).         *)
(***************************************************************************)
EXTENDS Integers, Sequences, FiniteSets, TLC

\* ------------------------------------------------------------------------
\* Bounds of the model
\* ------------------------------------------------------------------------
MaxFaults == 2
MaxAppends == 3
MaxCallers == 2

MaxContextOps == 3

MaxListLen == 3

MaxResults == 3

MaxTurns == 52

MaxStoreWrites == 6

\* ------------------------------------------------------------------------
\* Generic helpers (Python built-ins used by the code)
\* ------------------------------------------------------------------------
Min(a, b) == IF a <= b THEN a ELSE b

Max(a, b) == IF a >= b THEN a ELSE b

RECURSIVE Repeat(_, _)
Repeat(s, n) ==
    IF n = 0 THEN ""
    ELSE IF n % 2 = 0
         THEN LET half == Repeat(s, n \div 2) IN half \o half
         ELSE s \o Repeat(s, n - 1)

\* list(reversed(seq))
Reversed(seq) == [i \in 1..Len(seq) |-> seq[Len(seq) + 1 - i]]

\* sep.join(parts)
RECURSIVE Join(_, _)
Join(parts, sep) ==
    IF parts = <<>> THEN ""
    ELSE IF Len(parts) = 1 THEN parts[1]
    ELSE parts[1] \o sep \o Join(Tail(parts), sep)

UpperChars == "ABCDEFGHIJKLMNOPQRSTUVWXYZ"

LowerChars == "abcdefghijklmnopqrstuvwxyz"

UpperSet == {SubSeq(UpperChars, i, i) : i \in 1..26}

LowerChar(c) ==
    IF c \in UpperSet
    THEN LET i == CHOOSE j \in 1..26 : SubSeq(UpperChars, j, j) = c
         IN SubSeq(LowerChars, i, i)
    ELSE c

\* str.lower()
RECURSIVE Lower(_)
Lower(s) ==
    IF Len(s) = 0 THEN ""
    ELSE IF Len(s) = 1 THEN LowerChar(s)
    ELSE LET mid == Len(s) \div 2
         IN Lower(SubSeq(s, 1, mid)) \o Lower(SubSeq(s, mid + 1, Len(s)))

\* keyword in text
Contains(text, keyword) ==
    \E i \in 1..(Len(text) - Len(keyword) + 1) :
        SubSeq(text, i, i + Len(keyword) - 1) = keyword

\* the last n elements of a sequence
LastN(seq, n) == SubSeq(seq, Max(1, Len(seq) - n + 1), Len(seq))

\* ------------------------------------------------------------------------
\* Settings (app/core/config.py).  The settings are read from the
\* environment; the model runs under the defaults and under one tuned
\* environment.  LLM_TOKEN_THRESHOLD_PERCENTAGE is held in hundredths
\* (0.90 is 90, 1.0 is 100).
\* ------------------------------------------------------------------------
DefaultSettings ==
    [LLM_CONTEXT_WINDOW |-> 30000, LLM_TOKEN_THRESHOLD_PERCENTAGE |-> 90]

TunedSettings ==
    [LLM_CONTEXT_WINDOW |-> 30000, LLM_TOKEN_THRESHOLD_PERCENTAGE |-> 100]

SettingsChoices == {DefaultSettings, TunedSettings}

CHROMA_PAST_QA_N_RESULTS == 3
CHROMA_GENERAL_N_RESULTS == 5
CHROMA_HISTORY_N_RESULTS == 2
CHROMA_COGNITIVE_N_RESULTS == 3

\* the four similarity thresholds are all 0.1; similarities are in hundredths
CHROMA_PAST_QA_SIMILARITY_THRESHOLD == 10
CHROMA_GENERAL_SIMILARITY_THRESHOLD == 10
CHROMA_HISTORY_SIMILARITY_THRESHOLD == 10
CHROMA_COGNITIVE_SIMILARITY_THRESHOLD == 10

MAX_CHAT_HISTORY_LENGTH == 100

\* ------------------------------------------------------------------------
\* Token arithmetic of process_chat_message (eighths of a token)
\* ------------------------------------------------------------------------
\* len(text) / 4
ApproxTokens(text) == 2 * Len(text)

\* The double rounding of W * (pct / 100): 30000 * (0.90 / 100) evaluates to
\* 270.00000000000006 (one ulp above 270), 30000 * (1.0 / 100) to 300.0.
FloatExcess(s) == IF s = DefaultSettings THEN 1 ELSE 0

\* settings.LLM_CONTEXT_WINDOW * (settings.LLM_TOKEN_THRESHOLD_PERCENTAGE / 100)
WindowBudget(s) ==
    (8 * s.LLM_CONTEXT_WINDOW * s.LLM_TOKEN_THRESHOLD_PERCENTAGE) \div 10000
        + FloatExcess(s)

\* max_history_tokens
MaxHistoryTokens(s, system_message_content) ==
    WindowBudget(s) - ApproxTokens(system_message_content)

\* ------------------------------------------------------------------------
\* Redis lists (redis.asyncio commands used by ContextInjectorService).
\* A list is a sequence, head first; indices of the commands are 0-based,
\* inclusive, negative indices count from the tail.
\* ------------------------------------------------------------------------
\* an RPUSH in place of the LPUSH
RPush(list, value) == list \o <<value>>

LPush(list, value) == <<value>> \o list

RedisStart(n, i) == IF i < 0 THEN Max(n + i, 0) ELSE i

RedisStop(n, i) == IF i < 0 THEN n + i ELSE Min(i, n - 1)

LRange(list, start, stop) ==
    SubSeq(list, RedisStart(Len(list), start) + 1, RedisStop(Len(list), stop) + 1)

\* a trim that keeps one entry too many
LTrimInclusive(list, start, stop) == LRange(list, start, stop + 1)

LTrim(list, start, stop) == LRange(list, start, stop)

\* json.dumps(message_data) / msg_bytes.decode('utf-8') + json.loads: the
\* stored bytes either carry a JSON object or are not decodable
JsonDumps(value) == [json |-> value]

Decodable(bytes) == "json" \in DOMAIN bytes

JsonLoads(bytes) == bytes.json

\* message_data of add_message_to_history
MessageData(role, content, now) ==
    [role |-> role, content |-> content, timestamp |-> now]

\* a loop that gives up at the first undecodable entry
DecodeAllAbort(raw_messages) ==
    LET bad == {i \in 1..Len(raw_messages) : ~Decodable(raw_messages[i])}
        n == IF bad = {} THEN Len(raw_messages)
             ELSE (CHOOSE i \in bad : \A j \in bad : i <= j) - 1
    IN [i \in 1..n |-> JsonLoads(raw_messages[i])]

\* the loop of get_chat_history: decode each entry, skip the undecodable ones
DecodeAll(raw_messages) ==
    LET decodable == SelectSeq(raw_messages, Decodable)
    IN [i \in 1..Len(decodable) |-> JsonLoads(decodable[i])]

\* get_chat_history(user_id, limit); limit None and limit 0 both read it all
GetChatHistory(list, limit) ==
    LET raw_messages == LRange(list, 0, IF limit # 0 THEN limit - 1 ELSE -1)
    IN DecodeAll(Reversed(raw_messages))

\* ------------------------------------------------------------------------
\* Redis hashes and the context record (ContextInjectorService, lines
\* 23-82).  A Python value of the client's mapping is a record of its type
\* and its text; a hash maps field names to the stored bytes; a key with
\* no field does not exist.
\* ------------------------------------------------------------------------
PyInt(digits) == [type |-> "int", repr |-> digits]

PyStr(text) == [type |-> "str", repr |-> text]

PyNone == [type |-> "NoneType", repr |-> ""]

EmptyHash == [k \in {} |-> ""]

Digits == {"0", "1", "2", "3", "4", "5", "6", "7", "8", "9"}

\* json.dumps(v) of update_context (line 58)
JsonDumpsValue(v) ==
    IF v.type = "int" THEN v.repr
    ELSE IF v.type = "str" THEN "\"" \o v.repr \o "\""
    ELSE "null"

IsJsonString(text) ==
    /\ Len(text) >= 2
    /\ SubSeq(text, 1, 1) = "\""
    /\ SubSeq(text, Len(text), Len(text)) = "\""
    /\ \A i \in 2..(Len(text) - 1) : SubSeq(text, i, i) # "\""

IsJsonNumber(text) ==
    /\ Len(text) >= 1
    /\ \A i \in 1..Len(text) : SubSeq(text, i, i) \in Digits

\* json.loads raises JSONDecodeError on any other text
JsonParses(text) ==
    text = "null" \/ IsJsonString(text) \/ IsJsonNumber(text)

JsonLoadsValue(text) ==
    IF text = "null" THEN PyNone
    ELSE IF IsJsonString(text) THEN PyStr(SubSeq(text, 2, Len(text) - 1))
    ELSE PyInt(text)

\* lines 37-42: a value that is not JSON is returned as the decoded string
ParseContextValue(value_bytes) ==
    IF JsonParses(value_bytes) THEN JsonLoadsValue(value_bytes)
    ELSE PyStr(value_bytes)

\* a write that replaces the whole hash
HSetReplace(hash, mapping) == mapping

\* HSET key mapping: the given fields are set, the others are kept
HSet(hash, mapping) ==
    [k \in DOMAIN hash \cup DOMAIN mapping |->
        IF k \in DOMAIN mapping THEN mapping[k] ELSE hash[k]]

\* every user under one key
ContextKeyShared(user_id) == "user_context:"

\* context_key (lines 25, 54, 72)
ContextKey(user_id) == "user_context:" \o user_id

\* updated_at assigned first, the client's fields over it
DataToStoreClientFirst(new_context_data, now) ==
    [k \in DOMAIN new_context_data \cup {"updated_at"} |->
        IF k \in DOMAIN new_context_data
        THEN JsonDumpsValue(new_context_data[k]) ELSE now]

\* lines 58-59: data_to_store
DataToStore(new_context_data, now) ==
    [k \in DOMAIN new_context_data \cup {"updated_at"} |->
        IF k = "updated_at" THEN now
        ELSE JsonDumpsValue(new_context_data[k])]

\* what get_current_context returns: None, or the parsed mapping
NoneContext == [none |-> TRUE, mapping |-> EmptyHash]

\* lines 28-45: get_current_context on the hash HGETALL returned
GetCurrentContext(raw_context) ==
    IF DOMAIN raw_context = {} THEN NoneContext
    ELSE [none |-> FALSE,
          mapping |-> [k \in DOMAIN raw_context |->
                          ParseContextValue(raw_context[k])]]

\* ------------------------------------------------------------------------
\* Prompt messages (langchain_core.messages)
\* ------------------------------------------------------------------------
SystemMessage(content) == [type |-> "system", content |-> content]

HumanMessage(content) == [type |-> "human", content |-> content]

AIMessage(content) == [type |-> "ai", content |-> content]

\* ------------------------------------------------------------------------
\* The history walk of process_chat_message (lines 211-228).  history is
\* trimmed_history, tokens is current_history_tokens, stopped is set by the
\* break; src records, next to each message of trimmed_history, its
\* position in the list that get_chat_history returned.
\* ------------------------------------------------------------------------
\* a loop body that never adds msg_tokens to current_history_tokens
WalkStepNoAccumulation(acc, full, i, max_history_tokens) ==
    LET msg_content == full[i].content
        msg_role == full[i].role
        msg_tokens == ApproxTokens(msg_content)
    IN IF acc.stopped THEN acc
       ELSE IF acc.tokens + msg_tokens <= max_history_tokens
       THEN [history |->
                IF msg_role = "human"
                THEN <<HumanMessage(msg_content)>> \o acc.history
                ELSE IF msg_role = "ai"
                THEN <<AIMessage(msg_content)>> \o acc.history
                ELSE acc.history,
             src |->
                IF msg_role \in {"human", "ai"}
                THEN <<i>> \o acc.src ELSE acc.src,
             tokens |-> acc.tokens,
             stopped |-> FALSE]
       ELSE [acc EXCEPT !.stopped = TRUE]

\* the loop body for the message at position i
WalkStep(acc, full, i, max_history_tokens) ==
    LET msg_content == full[i].content
        msg_role == full[i].role
        msg_tokens == ApproxTokens(msg_content)
    IN IF acc.stopped THEN acc
       ELSE IF acc.tokens + msg_tokens <= max_history_tokens
       THEN [history |->
                IF msg_role = "human"
                THEN <<HumanMessage(msg_content)>> \o acc.history
                ELSE IF msg_role = "ai"
                THEN <<AIMessage(msg_content)>> \o acc.history
                ELSE acc.history,
             src |->
                IF msg_role \in {"human", "ai"}
                THEN <<i>> \o acc.src ELSE acc.src,
             tokens |-> acc.tokens + msg_tokens,
             stopped |-> FALSE]
       ELSE [acc EXCEPT !.stopped = TRUE]

\* for msg_dict in full_chat_history_from_redis, positions lo..hi in order
RECURSIVE HistoryWalk(_, _, _, _, _)
HistoryWalk(full, lo, hi, max_history_tokens, acc) ==
    IF lo > hi THEN acc
    ELSE IF lo = hi THEN WalkStep(acc, full, lo, max_history_tokens)
    ELSE LET mid == (lo + hi) \div 2
             first == HistoryWalk(full, lo, mid, max_history_tokens, acc)
         IN IF first.stopped THEN first
            ELSE HistoryWalk(full, mid + 1, hi, max_history_tokens, first)

TrimHistory(full, max_history_tokens) ==
    HistoryWalk(full, 1, Len(full), max_history_tokens,
                [history |-> <<>>, src |-> <<>>, tokens |-> 0,
                 stopped |-> FALSE])


\* ------------------------------------------------------------------------
\* Timestamps: datetime.now(timezone.utc).isoformat() at clock tick t,
\* datetime.fromisoformat and strftime("%B %d, %Y")
\* ------------------------------------------------------------------------
IsoFormat(t) == "2025-06-" \o ToString(22 + t) \o "T20:16:05.920+00:00"

IsIsoFormat(text) ==
    /\ Len(text) = 29
    /\ SubSeq(text, 1, 8) = "2025-06-"
    /\ SubSeq(text, 11, 29) = "T20:16:05.920+00:00"

Strftime(text) == "June " \o SubSeq(text, 9, 10) \o ", 2025"

\* ------------------------------------------------------------------------
\* VectorStoreService.query_documents (lines 91-187).  The index (ChromaDB)
\* is a black box: its answer is a ranked list of at most n_results entries
\* of the collection, each with a distance (in hundredths), or a failure.
\* ------------------------------------------------------------------------
Document(id, content, metadata) ==
    [id |-> id, content |-> content, metadata |-> metadata]

DocumentQueryResult(document, distance) ==
    [document |-> document, distance |-> distance]

Distances == {8, 95}

IndexFailure == [ok |-> FALSE, results |-> <<>>]

IndexAnswers(docs, n_results) ==
    {IndexFailure} \cup
    { [ok |-> TRUE,
       results |-> [j \in 1..k |-> [id |-> docs[j].id,
                                    content |-> docs[j].content,
                                    metadata |-> docs[j].metadata,
                                    distance |-> dist[j]]]] :
        <<k, dist>> \in
          UNION { {<<k, d>> : d \in [1..k -> Distances]} :
                  k \in 0..Min(n_results, Len(docs)) } }

\* the loop over the index results: calculated_similarity = 1 - dist, an
\* entry below min_similarity_score is skipped
RECURSIVE FilterResults(_, _)
FilterResults(results, min_similarity_score) ==
    IF results = <<>> THEN <<>>
    ELSE LET r == Head(results)
             rest == FilterResults(Tail(results), min_similarity_score)
         IN IF 100 - r.distance < min_similarity_score
            THEN rest
            ELSE <<DocumentQueryResult(
                      Document(r.id, r.content, r.metadata), r.distance)>>
                 \o rest

\* a filter that also drops a result whose similarity equals the threshold
QueryDocumentsStrict(query_text, answer, min_similarity_score) ==
    IF query_text = "" THEN <<>>
    ELSE FilterResults(answer.results, min_similarity_score + 1)

\* the value query_documents returns when the index answered
QueryDocuments(query_text, answer, min_similarity_score) ==
    IF query_text = "" THEN <<>>
    ELSE FilterResults(answer.results, min_similarity_score)

\* query_documents raises iff it called the index and the index failed
QueryRaises(query_text, answer) == query_text # "" /\ ~answer.ok

\* ------------------------------------------------------------------------
\* Context assembly of process_chat_message (lines 64-197)
\* ------------------------------------------------------------------------
SystemPromptHead ==
    "\n        You are a helpful and knowledgeable AI assistant. Your goal is to provide accurate and concise answers based on the provided context.\n        If the answer cannot be found in the context, politely state that you don't know or that the information is not available in the provided documents.\n        Avoid making up information. Maintain a consistent persona. Be concise and to the point.\n\n        "

\* self.system_prompt_template.format(...)
FormatSystemPrompt(general_rag_context, history_context, cognitive_context) ==
    SystemPromptHead \o general_rag_context \o "\n        "
        \o history_context \o "\n        "
        \o cognitive_context \o "\n        "

NoRagContext == "No specific RAG context provided."

FALLBACK_RESPONSE ==
    "I am sorry, but I encountered an error while processing your request."

user_qa_collection_name == "user_past_questions_answers"

keywords_for_historical_context ==
    <<"yesterday", "last time", "previous conversation", "memory",
      "remember", "before", "information", "informations">>

\* a keyword test that does not lower-case the message
HasHistoricalKeywordCaseSensitive(user_message_content) ==
    \E k \in 1..Len(keywords_for_historical_context) :
        Contains(user_message_content, keywords_for_historical_context[k])

HasHistoricalKeyword(user_message_content) ==
    \E k \in 1..Len(keywords_for_historical_context) :
        Contains(Lower(user_message_content),
                 keywords_for_historical_context[k])

\* A metadata value that is a number and not a string is held under the key
\* <name>_int (ChromaDB metadata values are str, int, float or bool).
\* line 88: datetime.fromisoformat(timestamp_str) raises TypeError, which
\* the except ValueError of line 91 does not catch, when the timestamp is a
\* non-zero number
TimestampRaises(doc) ==
    LET meta == doc.document.metadata
    IN "timestamp_int" \in DOMAIN meta /\ meta.timestamp_int # 0

\* lines 83-97: one prepended line of the past-Q&A tier
PastResponseLine(doc) ==
    LET meta == doc.document.metadata
        timestamp_str == IF "timestamp" \in DOMAIN meta
                         THEN meta.timestamp ELSE ""
        formatted_date == IF timestamp_str # "" /\ IsIsoFormat(timestamp_str)
                          THEN Strftime(timestamp_str)
                          ELSE "unknown date"
    IN "AI's past response on " \o formatted_date \o ": "
           \o doc.document.content

\* lines 81-98: the loop over past_qa_documents stops at the first document
\* whose timestamp makes fromisoformat raise TypeError
FirstRaising(documents) ==
    IF \E j \in 1..Len(documents) : TimestampRaises(documents[j])
    THEN CHOOSE j \in 1..Len(documents) :
            /\ TimestampRaises(documents[j])
            /\ \A i \in 1..(j - 1) : ~TimestampRaises(documents[i])
    ELSE Len(documents) + 1

\* past_ai_responses_for_prepend when the tier is left (lines 95-97)
PastResponseLines(documents) ==
    [j \in 1..(FirstRaising(documents) - 1) |->
        PastResponseLine(documents[j])]

\* line 99: all_source_documents_for_response.extend(past_qa_documents) is
\* reached only when the loop ended without an exception
PastQASources(documents) ==
    IF FirstRaising(documents) <= Len(documents) THEN <<>> ELSE documents

\* "- {doc.document.content}\n" for each document
RECURSIVE BulletLines(_)
BulletLines(documents) ==
    IF documents = <<>> THEN <<>>
    ELSE <<"- " \o Head(documents).document.content \o "\n">>
         \o BulletLines(Tail(documents))

\* the documents a tier contributes: nothing when its query raised
TierDocuments(query_text, answer, min_similarity_score) ==
    IF QueryRaises(query_text, answer) THEN <<>>
    ELSE QueryDocuments(query_text, answer, min_similarity_score)

\* ------------------------------------------------------------------------
\* The world of the model: users, requests, index contents, model answers
\* ------------------------------------------------------------------------
Users == {"alice", "bob"}

UserMessages ==
    {"", "What is the refund policy?",
     "remember what I told you yesterday about my order",
     "What did we say BEFORE?"}

CollectionNames == {"kb"}

AIResponses == {"Refunds are accepted within 30 days.", ""}

\* the caller's knowledge base: with the first document alone the system
\* message is 1080 characters long, with the second alone 1200
GeneralDocuments ==
    <<Document("kb-1", Repeat("a", 620), [source |-> "faq"]),
      Document("kb-2", Repeat("b", 740), [source |-> "terms"])>>

LongTermDocuments ==
    <<Document("ltm-1", "Order 42 was delayed.", [user_id |-> "bob"])>>

CognitiveDocuments ==
    <<Document("cog-1", "Answer step by step.", [source |-> "guide"])>>

\* the Redis list that holds a chronological history: most recent first
StoredList(chronological) ==
    Reversed([i \in 1..Len(chronological) |-> JsonDumps(chronological[i])])

\* states earlier turns leave behind: alice's chronological history and the
\* past-Q&A collection
HistoryEmptyTurn ==
    <<MessageData("human", "", IsoFormat(0)),
      MessageData("ai", FALLBACK_RESPONSE, IsoFormat(0))>>

HistoryLong ==
    <<MessageData("human", "What is the refund policy?", IsoFormat(0)),
      MessageData("ai", Repeat("y", 400), IsoFormat(0)),
      MessageData("human", "And before that?", IsoFormat(0)),
      MessageData("ai", Repeat("z", 300), IsoFormat(0))>>

HistoryFull ==
    [i \in 1..MAX_CHAT_HISTORY_LENGTH |->
        MessageData(IF i % 2 = 1 THEN "human" ELSE "ai",
                    "m" \o ToString(i), IsoFormat(0))]

PastQADocument ==
    Document("qa-0", Repeat("y", 400),
             [user_id |-> "alice", question |-> "What is the refund policy?",
              timestamp |-> IsoFormat(0)])

\* a document added to the past-Q&A collection through the documents
\* endpoint (POST /{collection_name}/documents) with a numeric timestamp
ImportedQADocument ==
    Document("qa-1", "Imported answer.",
             [user_id |-> "alice", question |-> "What is the refund policy?",
              timestamp_int |-> 1750709765])

Snapshots ==
    { [history |-> <<>>, past_qa |-> <<>>],
      [history |-> HistoryEmptyTurn, past_qa |-> <<>>],
      [history |-> HistoryLong,
       past_qa |-> <<PastQADocument, ImportedQADocument>>],
      [history |-> HistoryFull, past_qa |-> <<>>] }

\* ------------------------------------------------------------------------
\* State
\* ------------------------------------------------------------------------
VARIABLES
    settings,       \* app.core.config.settings
    chat_history,   \* Redis lists chat_history:<user_id>
    past_qa,        \* ChromaDB collection user_past_questions_answers
    clock,          \* ticks of datetime.now()
    next_uuid,      \* uuid.uuid4() draws
    pc,             \* position of the process_chat_message coroutine
    frame,          \* its local variables
    response,       \* the ChatResponse it returned
    obs,            \* what happened in the turn (observation only)
    appended,       \* per user, every message whose LPUSH was applied
    faults,         \* failures of the store, the index and the model so far
    appends,        \* direct add_message_to_history calls made
    calls,          \* concurrent add_message_to_history calls in progress
    user_context,   \* Redis hashes user_context:<user_id>, by key
    written,        \* per user, the client's latest value of every field
    last_call,      \* the last service call made on its own and its result
    turns           \* concurrent turns at their two history appends

vars == <<settings, chat_history, past_qa, clock, next_uuid, pc, frame,
          response, obs, appended, faults, appends, calls, user_context,
          written, last_call, turns>>

\* the state no step of process_chat_message's pipeline touches
service_vars == <<user_context, written, last_call, turns>>

IdleFrame ==
    [user_id |-> "", user_message_content |-> "", collection_name |-> "",
     message_id |-> "",
     all_source_documents_for_response |-> <<>>,
     past_ai_responses_for_prepend |-> <<>>,
     general_rag_context_parts |-> <<>>,
     history_context_str |-> "",
     cognitive_context_str |-> "",
     system_message_content |-> "",
     full_chat_history_from_redis |-> <<>>,
     max_history_tokens |-> 0,
     trimmed_history |-> <<>>,
     messages_for_llm |-> <<>>,
     ai_response_content |-> ""]

NoObs ==
    [history_before |-> <<>>, past_qa_before |-> <<>>, trimmed_src |-> <<>>,
     tiers_queried |-> {}, tiers_failed |-> {}, tier_documents |-> <<>>,
     composed |-> FALSE, llm_failed |-> FALSE, store_failed |-> FALSE,
     append_attempted |-> FALSE, qa_attempted |-> FALSE,
     qa_failed |-> FALSE]

NoResponse == [ai_response |-> "", source_documents |-> <<>>, message_id |-> ""]

Uuid(n) == "uuid-" \o ToString(n)

\* the coroutines that call add_message_to_history concurrently
Callers == 1..MaxCallers

IdleCall == [pc |-> "idle", user_id |-> "", overlapped |-> FALSE]

ContextKeys == {ContextKey(u) : u \in Users}

NoCall == [op |-> "none", n |-> 0]

\* a turn that has not reached its history appends; human_at and ai_at are
\* the positions of its two pushes in the order Redis applied them
IdleTurn ==
    [pc |-> "idle", user_id |-> "", human_at |-> 0, ai_at |-> 0,
     completed |-> 0]

Init ==
    /\ settings \in SettingsChoices
    /\ \E s \in Snapshots :
         /\ chat_history = [u \in Users |->
                IF u = "alice" THEN StoredList(s.history) ELSE <<>>]
         /\ appended = [u \in Users |->
                IF u = "alice" THEN s.history ELSE <<>>]
         /\ past_qa = s.past_qa
    /\ clock = 1
    /\ next_uuid = 1
    /\ pc = "idle"
    /\ frame = IdleFrame
    /\ response = NoResponse
    /\ obs = NoObs
    /\ faults = 0
    /\ appends = 0
    /\ calls = [c \in Callers |-> IdleCall]
    /\ user_context = [key \in ContextKeys |-> EmptyHash]
    /\ written = [u \in Users |-> EmptyHash]
    /\ last_call = NoCall
    /\ turns = [c \in Callers |-> IdleTurn]

\* ------------------------------------------------------------------------
\* ChatService.process_chat_message, one action per suspension point
\* ------------------------------------------------------------------------
\* lines 56-62: a request arrives (chat_with_ai calls process_chat_message)
StartTurn(user_id, user_message, collection_name) ==
    /\ pc = "idle"
    /\ frame' = [IdleFrame EXCEPT !.user_id = user_id,
                                  !.user_message_content = user_message,
                                  !.collection_name = collection_name,
                                  !.message_id = Uuid(next_uuid)]
    /\ next_uuid' = next_uuid + 1
    /\ response' = NoResponse
    /\ obs' = [NoObs EXCEPT !.history_before = chat_history[user_id],
                            !.past_qa_before = past_qa]
    /\ pc' = "retrieve"
    /\ UNCHANGED service_vars
    /\ UNCHANGED <<settings, chat_history, past_qa, clock, appended, appends, calls,
                   faults>>

\* the tiers that call the index for a message: query_documents returns
\* [] without a call for an empty text (vector_store.py lines 106-107), the
\* historical tier is behind the keyword test (line 132)
TiersQueried(text) ==
    IF text = "" THEN {}
    ELSE {1, 2, 4} \cup (IF HasHistoricalKeyword(text) THEN {3} ELSE {})

\* lines 64-176: the four retrieval tiers, each in its own try/except;
\* a1..a4 are the index's answers, executed the tiers that are run
RunTiers(a1, a2, a3, a4, executed) ==
    /\ pc = "retrieve"
    /\ \E queried \in {TiersQueried(frame.user_message_content) \cap executed} :
       LET text == frame.user_message_content
           past_qa_documents ==
               IF 1 \in queried
               THEN TierDocuments(text, a1, CHROMA_PAST_QA_SIMILARITY_THRESHOLD)
               ELSE <<>>
           general_documents ==
               IF 2 \in queried
               THEN TierDocuments(text, a2, CHROMA_GENERAL_SIMILARITY_THRESHOLD)
               ELSE <<>>
           historical_documents ==
               IF 3 \in queried
               THEN TierDocuments(text, a3, CHROMA_HISTORY_SIMILARITY_THRESHOLD)
               ELSE <<>>
           cognitive_documents ==
               IF 4 \in queried
               THEN TierDocuments(text, a4,
                                  CHROMA_COGNITIVE_SIMILARITY_THRESHOLD)
               ELSE <<>>
           failed == {t \in queried : ~(<<a1, a2, a3, a4>>[t]).ok}
       IN /\ faults + Cardinality(failed) <= MaxFaults
          /\ faults' = faults + Cardinality(failed)
          /\ frame' = [frame EXCEPT
                !.past_ai_responses_for_prepend =
                    PastResponseLines(past_qa_documents),
                !.general_rag_context_parts =
                    IF general_documents # <<>>
                    THEN <<"### General Knowledge:\n">>
                         \o BulletLines(general_documents)
                    ELSE <<>>,
                !.history_context_str =
                    IF historical_documents # <<>>
                    THEN "### Historical Context (Long-Term Memory):\n"
                         \o Join(BulletLines(historical_documents), "")
                    ELSE "",
                !.cognitive_context_str =
                    IF cognitive_documents # <<>>
                    THEN "### Cognitive Knowledge:\n"
                         \o Join(BulletLines(cognitive_documents), "")
                    ELSE "",
                !.all_source_documents_for_response =
                    PastQASources(past_qa_documents) \o general_documents
                        \o historical_documents \o cognitive_documents]
          /\ obs' = [obs EXCEPT !.tiers_queried = queried,
                                !.tiers_failed = failed,
                                !.tier_documents =
                                    <<past_qa_documents, general_documents,
                                      historical_documents,
                                      cognitive_documents>>]
    /\ pc' = "load_history"
    /\ UNCHANGED service_vars
    /\ UNCHANGED <<settings, chat_history, past_qa, clock, next_uuid,
                   response, appended, appends, calls>>

\* one try/except around all four tiers: the first failing query ends the
\* retrieval
RetrieveSingleTry(a1, a2, a3, a4) ==
    LET answer == <<a1, a2, a3, a4>>
        queried == TiersQueried(frame.user_message_content)
    IN RunTiers(a1, a2, a3, a4,
                {t \in 1..4 :
                    \A u \in 1..(t - 1) : u \in queried => answer[u].ok})

\* lines 69-176: every tier is run whatever the others did
Retrieve(a1, a2, a3, a4) == RunTiers(a1, a2, a3, a4, 1..4)

\* a general block that is left empty when the tier has no fragment
GeneralRagContextEmptyBlock(general_rag_context_parts) ==
    IF general_rag_context_parts # <<>>
    THEN Join(general_rag_context_parts, "\n")
    ELSE ""

\* line 178: general_rag_context
GeneralRagContext(general_rag_context_parts) ==
    IF general_rag_context_parts # <<>>
    THEN Join(general_rag_context_parts, "\n")
    ELSE NoRagContext

\* a prefix joined to the user message without the blank line
ModifiedUserMessageContentNoSeparator(past_ai_responses_for_prepend, user_message_content) ==
    IF past_ai_responses_for_prepend # <<>>
    THEN Join(past_ai_responses_for_prepend, "\n") \o user_message_content
    ELSE user_message_content

\* lines 233-239: modified_user_message_content
ModifiedUserMessageContent(past_ai_responses_for_prepend, user_message_content) ==
    IF past_ai_responses_for_prepend # <<>>
    THEN Join(past_ai_responses_for_prepend, "\n") \o "\n\n"
         \o user_message_content
    ELSE user_message_content

\* the current user message placed before the history
MessagesForLLMUserFirst(system_message_content, trimmed_history, modified_user_message_content) ==
    <<SystemMessage(system_message_content)>>
        \o <<HumanMessage(modified_user_message_content)>>
        \o trimmed_history

\* lines 190-242: messages_for_llm
MessagesForLLM(system_message_content, trimmed_history, modified_user_message_content) ==
    <<SystemMessage(system_message_content)>>
        \o trimmed_history
        \o <<HumanMessage(modified_user_message_content)>>

\* lines 178-242: get_chat_history answered; the prompt is composed
LoadHistory ==
    /\ pc = "load_history"
    /\ LET full == GetChatHistory(chat_history[frame.user_id], 0)
           general_rag_context ==
               GeneralRagContext(frame.general_rag_context_parts)
           system_message_content ==
               FormatSystemPrompt(general_rag_context,
                                  frame.history_context_str,
                                  frame.cognitive_context_str)
           max_history_tokens ==
               MaxHistoryTokens(settings, system_message_content)
           walk == TrimHistory(full, max_history_tokens)
           modified_user_message_content ==
               ModifiedUserMessageContent(frame.past_ai_responses_for_prepend,
                                          frame.user_message_content)
       IN /\ frame' = [frame EXCEPT
                !.full_chat_history_from_redis = full,
                !.system_message_content = system_message_content,
                !.max_history_tokens = max_history_tokens,
                !.trimmed_history = walk.history,
                !.messages_for_llm =
                    MessagesForLLM(system_message_content, walk.history,
                                   modified_user_message_content)]
          /\ obs' = [obs EXCEPT !.trimmed_src = walk.src, !.composed = TRUE]
    /\ pc' = "invoke_llm"
    /\ UNCHANGED service_vars
    /\ UNCHANGED <<settings, chat_history, past_qa, clock, next_uuid,
                   response, appended, appends, calls,
                   faults>>

\* line 186: the Redis LRANGE of get_chat_history raises; nothing catches it
\* in process_chat_message
LoadHistoryFail ==
    /\ pc = "load_history"
    /\ faults < MaxFaults
    /\ faults' = faults + 1
    /\ obs' = [obs EXCEPT !.store_failed = TRUE]
    /\ pc' = "raised"
    /\ UNCHANGED service_vars
    /\ UNCHANGED <<settings, chat_history, past_qa, clock, next_uuid, frame,
                   response, appended, appends, calls>>

\* lines 250-254: the completion call answers
InvokeLLM(content) ==
    /\ pc = "invoke_llm"
    /\ frame' = [frame EXCEPT !.ai_response_content = content]
    /\ pc' = "lpush_human"
    /\ UNCHANGED service_vars
    /\ UNCHANGED <<settings, chat_history, past_qa, clock, next_uuid,
                   response, obs, appended, appends, calls,
                   faults>>

\* a completion call whose exception is not caught
InvokeLLMRaise ==
    /\ pc = "invoke_llm"
    /\ faults < MaxFaults
    /\ faults' = faults + 1
    /\ obs' = [obs EXCEPT !.llm_failed = TRUE]
    /\ pc' = "raised"
    /\ UNCHANGED service_vars
    /\ UNCHANGED <<settings, chat_history, past_qa, clock, next_uuid, frame,
                   response, appended, appends, calls>>

\* lines 255-257: the completion call raises
InvokeLLMFail ==
    /\ pc = "invoke_llm"
    /\ faults < MaxFaults
    /\ faults' = faults + 1
    /\ frame' = [frame EXCEPT !.ai_response_content = FALLBACK_RESPONSE]
    /\ obs' = [obs EXCEPT !.llm_failed = TRUE]
    /\ pc' = "lpush_human"
    /\ UNCHANGED service_vars
    /\ UNCHANGED <<settings, chat_history, past_qa, clock, next_uuid,
                   response, appended, appends, calls>>

\* lines 259-269 and add_message_to_history lines 89-99: message_data is
\* built and the LPUSH is applied, for the human entry and then the ai entry
AppendLPush ==
    /\ pc \in {"lpush_human", "lpush_ai"}
    /\ LET message_data ==
               IF pc = "lpush_human"
               THEN MessageData("human", frame.user_message_content,
                                IsoFormat(clock))
               ELSE MessageData("ai", frame.ai_response_content,
                                IsoFormat(clock))
       IN /\ chat_history' = [chat_history EXCEPT ![frame.user_id] =
                                 LPush(@, JsonDumps(message_data))]
          /\ appended' = [appended EXCEPT ![frame.user_id] =
                                 Append(@, message_data)]
    /\ clock' = clock + 1
    /\ obs' = [obs EXCEPT !.append_attempted = TRUE]
    /\ pc' = IF pc = "lpush_human" THEN "ltrim_human" ELSE "ltrim_ai"
    /\ UNCHANGED service_vars
    /\ UNCHANGED <<settings, past_qa, next_uuid, frame, response,
                   appends, calls,
                   faults>>

\* the LPUSH raises (store unreachable); process_chat_message has no handler
AppendLPushFail ==
    /\ pc \in {"lpush_human", "lpush_ai"}
    /\ faults < MaxFaults
    /\ faults' = faults + 1
    /\ clock' = clock + 1
    /\ obs' = [obs EXCEPT !.append_attempted = TRUE, !.store_failed = TRUE]
    /\ pc' = "raised"
    /\ UNCHANGED service_vars
    /\ UNCHANGED <<settings, chat_history, past_qa, next_uuid, frame,
                   response, appended, appends, calls>>

\* add_message_to_history line 102: the LTRIM is applied
AppendLTrim ==
    /\ pc \in {"ltrim_human", "ltrim_ai"}
    /\ chat_history' = [chat_history EXCEPT ![frame.user_id] =
                           LTrim(@, 0, MAX_CHAT_HISTORY_LENGTH - 1)]
    /\ pc' = IF pc = "ltrim_human" THEN "lpush_ai" ELSE "store_qa"
    /\ UNCHANGED service_vars
    /\ UNCHANGED <<settings, past_qa, clock, next_uuid, frame, response,
                   obs, appended, appends, calls,
                   faults>>

\* the LTRIM raises
AppendLTrimFail ==
    /\ pc \in {"ltrim_human", "ltrim_ai"}
    /\ faults < MaxFaults
    /\ faults' = faults + 1
    /\ obs' = [obs EXCEPT !.store_failed = TRUE]
    /\ pc' = "raised"
    /\ UNCHANGED service_vars
    /\ UNCHANGED <<settings, chat_history, past_qa, clock, next_uuid, frame,
                   response, appended, appends, calls>>

\* lines 287-293: the ChatResponse
ChatResponse ==
    [ai_response |-> frame.ai_response_content,
     source_documents |->
        [j \in 1..Len(frame.all_source_documents_for_response) |->
            frame.all_source_documents_for_response[j].document],
     message_id |-> frame.message_id]

\* lines 272-293: the past-Q&A document is built and written, then the
\* response is returned.  Document.content has min_length 1: with an empty
\* answer the constructor raises inside the try and nothing is written.
StoreQA ==
    /\ pc = "store_qa"
    /\ LET new_qa_document ==
               Document(Uuid(next_uuid), frame.ai_response_content,
                        [user_id |-> frame.user_id,
                         question |-> frame.user_message_content,
                         timestamp |-> IsoFormat(clock)])
       IN past_qa' = IF frame.ai_response_content = "" THEN past_qa
                     ELSE Append(past_qa, new_qa_document)
    /\ next_uuid' = next_uuid + 1
    /\ clock' = clock + 1
    /\ obs' = [obs EXCEPT !.qa_attempted = TRUE]
    /\ response' = ChatResponse
    /\ pc' = "returned"
    /\ UNCHANGED service_vars
    /\ UNCHANGED <<settings, chat_history, frame, appended, appends, calls,
                   faults>>

\* lines 284-285 without the except: the failure of add_documents leaves
\* process_chat_message as an exception
StoreQARaise ==
    /\ pc = "store_qa"
    /\ faults < MaxFaults
    /\ faults' = faults + 1
    /\ frame.ai_response_content # ""
    /\ next_uuid' = next_uuid + 1
    /\ clock' = clock + 1
    /\ obs' = [obs EXCEPT !.qa_attempted = TRUE, !.qa_failed = TRUE]
    /\ pc' = "raised"
    /\ UNCHANGED service_vars
    /\ UNCHANGED <<settings, chat_history, past_qa, frame, response,
                   appended, appends, calls>>

\* lines 284-293: add_documents raises; the failure is logged and the
\* response is returned
StoreQAFail ==
    /\ pc = "store_qa"
    /\ faults < MaxFaults
    /\ faults' = faults + 1
    /\ frame.ai_response_content # ""
    /\ next_uuid' = next_uuid + 1
    /\ clock' = clock + 1
    /\ obs' = [obs EXCEPT !.qa_attempted = TRUE, !.qa_failed = TRUE]
    /\ response' = ChatResponse
    /\ pc' = "returned"
    /\ UNCHANGED service_vars
    /\ UNCHANGED <<settings, chat_history, past_qa, frame, appended,
                   appends, calls>>

Next ==
    \/ \E u \in Users, m \in UserMessages, c \in CollectionNames :
          StartTurn(u, m, c)
    \/ \E a1 \in IndexAnswers(past_qa, CHROMA_PAST_QA_N_RESULTS),
          a2 \in IndexAnswers(GeneralDocuments, CHROMA_GENERAL_N_RESULTS),
          a3 \in IndexAnswers(LongTermDocuments, CHROMA_HISTORY_N_RESULTS),
          a4 \in IndexAnswers(CognitiveDocuments, CHROMA_COGNITIVE_N_RESULTS) :
          Retrieve(a1, a2, a3, a4)
    \/ LoadHistory
    \/ LoadHistoryFail
    \/ \E content \in AIResponses : InvokeLLM(content)
    \/ InvokeLLMFail
    \/ AppendLPush
    \/ AppendLPushFail
    \/ AppendLTrim
    \/ AppendLTrimFail
    \/ StoreQA
    \/ StoreQAFail

Spec == Init /\ [][Next]_vars

\* ------------------------------------------------------------------------
\* ContextInjectorService.add_message_to_history called on its own, one call
\* after the other (lines 84-103): LPUSH, then LTRIM
\* ------------------------------------------------------------------------
AppendRoles == {"human", "ai"}

AppendContents == {"", "hi"}

AddMessageToHistory(user_id, role, content) ==
    /\ pc = "idle"
    /\ appends < MaxAppends
    /\ appends' = appends + 1
    /\ LET message_data == MessageData(role, content, IsoFormat(clock))
       IN /\ chat_history' = [chat_history EXCEPT ![user_id] =
                LTrim(LPush(@, JsonDumps(message_data)),
                      0, MAX_CHAT_HISTORY_LENGTH - 1)]
          /\ appended' = [appended EXCEPT ![user_id] =
                Append(@, message_data)]
    /\ clock' = clock + 1
    /\ UNCHANGED service_vars
    /\ UNCHANGED <<settings, past_qa, next_uuid, pc, frame, response, obs,
                   faults, calls>>

NextAppend ==
    \E u \in Users, role \in AppendRoles, content \in AppendContents :
        AddMessageToHistory(u, role, content)

SpecAppend == Init /\ [][NextAppend]_vars

\* ------------------------------------------------------------------------
\* Concurrent add_message_to_history calls (lines 84-103): every coroutine
\* suspends at `await lpush` (line 99) and at `await ltrim` (line 102), so
\* the two commands of different calls interleave; Redis applies each
\* command atomically
\* ------------------------------------------------------------------------
\* a call that pushes its entry twice
CallLPushTwice(c, user_id, role, content) ==
    /\ calls[c].pc = "idle"
    /\ LET message_data == MessageData(role, content, IsoFormat(clock))
       IN /\ chat_history' = [chat_history EXCEPT ![user_id] =
                LPush(LPush(@, JsonDumps(message_data)),
                      JsonDumps(message_data))]
          /\ appended' = [appended EXCEPT ![user_id] =
                Append(@, message_data)]
    /\ calls' = [calls EXCEPT ![c] =
          [pc |-> "pushed", user_id |-> user_id, overlapped |-> FALSE]]
    /\ clock' = clock + 1
    /\ UNCHANGED service_vars
    /\ UNCHANGED <<settings, past_qa, next_uuid, pc, frame, response, obs,
                   faults, appends>>

\* lines 89-99: message_data is built and LPUSHed
CallLPush(c, user_id, role, content) ==
    /\ calls[c].pc = "idle"
    /\ LET message_data == MessageData(role, content, IsoFormat(clock))
       IN /\ chat_history' = [chat_history EXCEPT ![user_id] =
                LPush(@, JsonDumps(message_data))]
          /\ appended' = [appended EXCEPT ![user_id] =
                Append(@, message_data)]
    /\ calls' = [calls EXCEPT ![c] =
          [pc |-> "pushed", user_id |-> user_id,
           overlapped |-> \E d \in Callers \ {c} :
                             /\ calls[d].pc = "pushed"
                             /\ calls[d].user_id = user_id]]
    /\ clock' = clock + 1
    /\ UNCHANGED service_vars
    /\ UNCHANGED <<settings, past_qa, next_uuid, pc, frame, response, obs,
                   faults, appends>>

\* line 102 with the window shifted by one: the newest entry is cut
CallLTrimDropNewest(c) ==
    /\ calls[c].pc = "pushed"
    /\ chat_history' = [chat_history EXCEPT ![calls[c].user_id] =
          LTrim(@, 1, MAX_CHAT_HISTORY_LENGTH)]
    /\ calls' = [calls EXCEPT ![c].pc = "done"]
    /\ UNCHANGED service_vars
    /\ UNCHANGED <<settings, past_qa, clock, next_uuid, pc, frame, response,
                   obs, appended, faults, appends>>

\* line 102: LTRIM key 0 MAX_CHAT_HISTORY_LENGTH-1, then the call returns
CallLTrim(c) ==
    /\ calls[c].pc = "pushed"
    /\ chat_history' = [chat_history EXCEPT ![calls[c].user_id] =
          LTrim(@, 0, MAX_CHAT_HISTORY_LENGTH - 1)]
    /\ calls' = [calls EXCEPT ![c].pc = "done"]
    /\ UNCHANGED service_vars
    /\ UNCHANGED <<settings, past_qa, clock, next_uuid, pc, frame, response,
                   obs, appended, faults, appends>>

NextConcurrent ==
    \/ \E c \in Callers, u \in Users, role \in AppendRoles,
          content \in AppendContents : CallLPush(c, u, role, content)
    \/ \E c \in Callers : CallLTrim(c)

SpecConcurrent == Init /\ [][NextConcurrent]_vars

\* ------------------------------------------------------------------------
\* The context record operations of ContextInjectorService (lines 28-82),
\* called one after the other through the endpoints of
\* api/v1/endpoints/context.py
\* ------------------------------------------------------------------------
\* context_data of the requests (DynamicContext.context_data)
ContextData ==
    { EmptyHash,
      [k \in {"a"} |-> PyInt("1")],
      [k \in {"b"} |-> PyInt("2")],
      [k \in {"a"} |-> PyStr("1")],
      [k \in {"a", "b"} |-> IF k = "a" THEN PyNone ELSE PyStr("x")],
      [k \in {"updated_at"} |-> PyStr("1999-01-01T00:00:00+00:00")] }

\* lines 61-68: the write, when data_to_store is not empty, and the read
\* that produces the return value
UpdateContextWith(user_id, new_context_data, data_to_store) ==
    /\ last_call.n < MaxContextOps
    /\ LET context_key == ContextKey(user_id)
           branch == IF DOMAIN data_to_store # {} THEN "hset"
                     ELSE "warning"
           stored == IF branch = "hset"
                     THEN HSet(user_context[context_key], data_to_store)
                     ELSE user_context[context_key]
       IN /\ user_context' = [user_context EXCEPT ![context_key] = stored]
          /\ written' = [written EXCEPT ![user_id] =
                IF branch = "hset"
                THEN [k \in DOMAIN @ \cup DOMAIN new_context_data |->
                         IF k \in DOMAIN new_context_data
                         THEN new_context_data[k] ELSE @[k]]
                ELSE @]
          /\ last_call' =
                [op |-> "update_context", n |-> last_call.n + 1,
                 user_id |-> user_id,
                 new_context_data |-> new_context_data,
                 branch |-> branch, now |-> IsoFormat(clock),
                 result |-> GetCurrentContext(stored)]
    /\ clock' = clock + 1
    /\ UNCHANGED <<settings, chat_history, past_qa, next_uuid, pc, frame,
                   response, obs, appended, faults, appends, calls, turns>>

\* an update that stamps updated_at only when the client sent a field
UpdateContextSkipEmpty(user_id, new_context_data) ==
    UpdateContextWith(user_id, new_context_data,
        IF DOMAIN new_context_data = {} THEN EmptyHash
        ELSE DataToStore(new_context_data, IsoFormat(clock)))

\* lines 47-68: update_context
UpdateContext(user_id, new_context_data) ==
    UpdateContextWith(user_id, new_context_data,
        DataToStore(new_context_data, IsoFormat(clock)))

\* a delete of the context key alone
DeleteContextRecordOnly(user_id) ==
    /\ last_call.n < MaxContextOps
    /\ LET context_key == ContextKey(user_id)
           deleted_count ==
               IF DOMAIN user_context[context_key] # {} THEN 1 ELSE 0
       IN /\ user_context' =
                [user_context EXCEPT ![context_key] = EmptyHash]
          /\ last_call' =
                [op |-> "delete_context", n |-> last_call.n + 1,
                 user_id |-> user_id,
                 context_existed |->
                    DOMAIN user_context[context_key] # {},
                 history_existed |-> chat_history[user_id] # <<>>,
                 context_before |-> user_context,
                 history_before |-> chat_history,
                 deleted |-> deleted_count > 0,
                 status_code |-> IF deleted_count > 0 THEN 204 ELSE 404]
    /\ written' = [written EXCEPT ![user_id] = EmptyHash]
    /\ UNCHANGED <<settings, chat_history, past_qa, clock, next_uuid, pc,
                   frame, response, obs, appended, faults, appends, calls,
                   turns>>

\* lines 70-82: delete_context, DEL of both keys; context.py lines 85-99:
\* 404 when it returned False, 204 otherwise
DeleteContext(user_id) ==
    /\ last_call.n < MaxContextOps
    /\ LET context_key == ContextKey(user_id)
           deleted_count ==
               (IF DOMAIN user_context[context_key] # {} THEN 1 ELSE 0)
               + (IF chat_history[user_id] # <<>> THEN 1 ELSE 0)
       IN /\ user_context' =
                [user_context EXCEPT ![context_key] = EmptyHash]
          /\ chat_history' = [chat_history EXCEPT ![user_id] = <<>>]
          /\ last_call' =
                [op |-> "delete_context", n |-> last_call.n + 1,
                 user_id |-> user_id,
                 context_existed |->
                    DOMAIN user_context[context_key] # {},
                 history_existed |-> chat_history[user_id] # <<>>,
                 context_before |-> user_context,
                 history_before |-> chat_history,
                 deleted |-> deleted_count > 0,
                 status_code |-> IF deleted_count > 0 THEN 204 ELSE 404]
    /\ written' = [written EXCEPT ![user_id] = EmptyHash]
    /\ appended' = [appended EXCEPT ![user_id] = <<>>]
    /\ UNCHANGED <<settings, past_qa, clock, next_uuid, pc, frame,
                   response, obs, faults, appends, calls, turns>>

\* context.py lines 52-78: get_user_context reads the record
GetUserContext(user_id) ==
    /\ last_call.n < MaxContextOps
    /\ last_call' =
          [op |-> "get_current_context", n |-> last_call.n + 1,
           user_id |-> user_id,
           result |-> GetCurrentContext(user_context[ContextKey(user_id)])]
    /\ UNCHANGED <<settings, chat_history, past_qa, clock, next_uuid, pc,
                   frame, response, obs, appended, faults, appends, calls,
                   user_context, written, turns>>

NextContext ==
    \/ \E u \in Users, data \in ContextData : UpdateContext(u, data)
    \/ \E u \in Users : DeleteContext(u)
    \/ \E u \in Users : GetUserContext(u)

SpecContext == Init /\ [][NextContext]_vars

\* ------------------------------------------------------------------------
\* get_chat_history and query_documents called on their own, on a stored
\* list and on an index answer drawn from bounded sets
\* ------------------------------------------------------------------------
\* bytes that are not UTF-8, and text that is not JSON
NotUtf8 == [raw |-> "\\xff\\xfe"]

NotJson == [raw |-> "{'role': 'human'"]

StoredEntries ==
    { JsonDumps(MessageData("human", "hi", IsoFormat(0))),
      JsonDumps(MessageData("ai", "hello", IsoFormat(0))),
      NotUtf8, NotJson }

StoredLists == UNION { [1..k -> StoredEntries] : k \in 0..MaxListLen }

\* limit of get_chat_history; 0 stands for None
Limits == {0, 2}

\* lines 105-131: get_chat_history(user_id, limit) on the list at the key
GetChatHistoryCall(list, limit) ==
    /\ last_call.op = "none"
    /\ last_call' =
          [op |-> "get_chat_history", n |-> last_call.n + 1,
           raw_messages |-> list, limit |-> limit,
           result |-> GetChatHistory(list, limit)]
    /\ UNCHANGED <<settings, chat_history, past_qa, clock, next_uuid, pc,
                   frame, response, obs, appended, faults, appends, calls,
                   user_context, written, turns>>

\* the documents of the queried collection, in the order the index ranks
\* them; the third was added without metadata
QueryDocs ==
    <<Document("d-1", "first fragment", [source |-> "kb"]),
      Document("d-2", "second fragment", [source |-> "faq"]),
      Document("d-3", "third fragment", EmptyHash),
      Document("d-4", "fourth fragment", [source |-> "kb"])>>

\* distances the index reports, in hundredths
QueryDistances == {0, 90, 91, 100, 150}

\* min_similarity_score of the call, in hundredths
QueryThresholds == {0, 10, 70}

QueryAnswers ==
    {IndexFailure} \cup
    { [ok |-> TRUE,
       results |-> [j \in 1..Len(dist) |->
                       [id |-> QueryDocs[j].id,
                        content |-> QueryDocs[j].content,
                        metadata |-> QueryDocs[j].metadata,
                        distance |-> dist[j]]]] :
        dist \in UNION { [1..k -> QueryDistances] :
                         k \in 0..Min(MaxResults, Len(QueryDocs)) } }

\* lines 91-187: query_documents(collection_name, query_text, ...,
\* min_similarity_score) with the index answering `answer`
QueryDocumentsCall(query_text, answer, min_similarity_score) ==
    /\ last_call.op = "none"
    /\ last_call' =
          [op |-> "query_documents", n |-> last_call.n + 1,
           query_text |-> query_text, answer |-> answer,
           min_similarity_score |-> min_similarity_score,
           raised |-> QueryRaises(query_text, answer),
           result |-> IF QueryRaises(query_text, answer) THEN <<>>
                      ELSE QueryDocuments(query_text, answer,
                                          min_similarity_score)]
    /\ UNCHANGED <<settings, chat_history, past_qa, clock, next_uuid, pc,
                   frame, response, obs, appended, faults, appends, calls,
                   user_context, written, turns>>

NextCalls ==
    \/ \E list \in StoredLists, limit \in Limits :
          GetChatHistoryCall(list, limit)
    \/ \E query_text \in {"", "refund policy"}, answer \in QueryAnswers,
          min_similarity_score \in QueryThresholds :
          QueryDocumentsCall(query_text, answer, min_similarity_score)

SpecCalls == Init /\ [][NextCalls]_vars

\* ------------------------------------------------------------------------
\* The history appends of process_chat_message (lines 259-269) in turns
\* that run as separate coroutines: each turn awaits add_message_to_history
\* for the human entry, then for the ai entry, and each of these calls is an
\* LPUSH, then an LTRIM
\* ------------------------------------------------------------------------
\* lines 56-62: a turn of user_id is under way
TurnStart(c, user_id) ==
    /\ turns[c].pc = "idle"
    /\ turns[c].completed < MaxTurns
    /\ turns' = [turns EXCEPT ![c].pc = "started", ![c].user_id = user_id,
                              ![c].human_at = 0, ![c].ai_at = 0]
    /\ UNCHANGED <<settings, chat_history, past_qa, clock, next_uuid, pc,
                   frame, response, obs, appended, faults, appends, calls,
                   user_context, written, last_call>>

\* the LPUSH of a turn's add_message_to_history call
TurnLPush(c, role, content) ==
    LET user_id == turns[c].user_id
        message_data == MessageData(role, content, IsoFormat(clock))
    IN /\ chat_history' = [chat_history EXCEPT ![user_id] =
             LPush(@, JsonDumps(message_data))]
       /\ appended' = [appended EXCEPT ![user_id] = Append(@, message_data)]
       /\ turns' = [turns EXCEPT
             ![c].pc = role \o "_pushed",
             ![c].human_at = IF role = "human"
                             THEN Len(appended[user_id]) + 1 ELSE @,
             ![c].ai_at = IF role = "ai"
                          THEN Len(appended[user_id]) + 1 ELSE @]
       /\ clock' = clock + 1
       /\ UNCHANGED <<settings, past_qa, next_uuid, pc, frame, response,
                      obs, faults, appends, calls, user_context, written,
                      last_call>>

\* the LTRIM of a turn's add_message_to_history call
TurnLTrim(c, stop, next_pc) ==
    /\ chat_history' = [chat_history EXCEPT ![turns[c].user_id] =
          LTrim(@, 0, stop)]
    /\ turns' = [turns EXCEPT ![c].pc = next_pc]
    /\ UNCHANGED <<settings, past_qa, clock, next_uuid, pc, frame, response,
                   obs, appended, faults, appends, calls, user_context,
                   written, last_call>>

\* lines 259-263, LPUSH of the human entry
TurnLPushHuman(c, content) ==
    /\ turns[c].pc = "started"
    /\ TurnLPush(c, "human", content)

\* lines 259-263, LTRIM
TurnLTrimHuman(c) ==
    /\ turns[c].pc = "human_pushed"
    /\ TurnLTrim(c, MAX_CHAT_HISTORY_LENGTH - 1, "human_appended")

\* the ai entry pushed without awaiting the human append
TurnLPushAiUnordered(c, content) ==
    /\ turns[c].pc = "started"
    /\ TurnLPush(c, "ai", content)

\* lines 265-269, LPUSH of the ai entry
TurnLPushAi(c, content) ==
    /\ turns[c].pc = "human_appended"
    /\ TurnLPush(c, "ai", content)

\* a trim of the ai append that keeps one entry less
TurnLTrimAiOddCap(c) ==
    /\ turns[c].pc = "ai_pushed"
    /\ TurnLTrim(c, MAX_CHAT_HISTORY_LENGTH - 2, "returned")

\* lines 265-269, LTRIM; the rest of the turn leaves the list alone
TurnLTrimAi(c) ==
    /\ turns[c].pc = "ai_pushed"
    /\ TurnLTrim(c, MAX_CHAT_HISTORY_LENGTH - 1, "returned")

\* the turn has returned; the next request may be served
TurnReturn(c) ==
    /\ turns[c].pc = "returned"
    /\ turns' = [turns EXCEPT ![c].pc = "idle",
                              ![c].completed = @ + 1]
    /\ UNCHANGED <<settings, chat_history, past_qa, clock, next_uuid, pc,
                   frame, response, obs, appended, faults, appends, calls,
                   user_context, written, last_call>>

\* concurrent turns, one per coroutine
NextConcurrentTurns ==
    \E c \in Callers :
        \/ \E u \in Users : TurnStart(c, u)
        \/ TurnLPushHuman(c, "hi")
        \/ TurnLTrimHuman(c)
        \/ TurnLPushAi(c, "hello")
        \/ TurnLTrimAi(c)

SpecConcurrentTurns == Init /\ [][NextConcurrentTurns]_vars

\* the user whose turns run one after the other; the history starts empty
SequentialUsers == {"bob"}

\* turns of one user, each started after the one before has returned
NextTurns ==
    \E c \in {1} :
        \/ \E u \in SequentialUsers : TurnStart(c, u)
        \/ TurnLPushHuman(c, "hi")
        \/ TurnLTrimHuman(c)
        \/ TurnLPushAi(c, "hello")
        \/ TurnLTrimAi(c)
        \/ TurnReturn(c)

SpecTurns == Init /\ [][NextTurns]_vars

\* ------------------------------------------------------------------------
\* Every operation that writes the Memory Store, in any order: the context
\* writes and deletes, add_message_to_history on its own, and the two
\* history appends of a chat turn
\* ------------------------------------------------------------------------
\* chat_history_key (lines 73, 89, 110); the lists of chat_history are
\* indexed by the user the key is built from
ChatHistoryKey(user_id) == "chat_history:" \o user_id

\* the commands a turn has sent to the store
TurnWrites(c) ==
    IF turns[c].pc = "human_pushed" THEN 1
    ELSE IF turns[c].pc = "human_appended" THEN 2
    ELSE IF turns[c].pc = "ai_pushed" THEN 3
    ELSE IF turns[c].pc = "returned" THEN 4
    ELSE 0

\* the operations issued so far
StoreWrites == last_call.n + appends + TurnWrites(1)

NextStore ==
    /\ StoreWrites < MaxStoreWrites
    /\ \/ \E u \in Users : UpdateContext(u, [k \in {"a"} |-> PyInt("1")])
       \/ \E u \in Users : DeleteContext(u)
       \/ \E u \in Users : AddMessageToHistory(u, "human", "hi")
       \/ \E c \in {1} :
             \/ \E u \in Users : TurnStart(c, u)
             \/ TurnLPushHuman(c, "hi")
             \/ TurnLTrimHuman(c)
             \/ TurnLPushAi(c, "hello")
             \/ TurnLTrimAi(c)

SpecStore == Init /\ [][NextStore]_vars

\* ------------------------------------------------------------------------
\* Properties
\* ------------------------------------------------------------------------
\* sum(len(m.content) / 4 for m in messages[lo..hi])
RECURSIVE SumTokensRange(_, _, _)
SumTokensRange(messages, lo, hi) ==
    IF lo > hi THEN 0
    ELSE IF lo = hi THEN ApproxTokens(messages[lo].content)
    ELSE LET mid == (lo + hi) \div 2
         IN SumTokensRange(messages, lo, mid)
                + SumTokensRange(messages, mid + 1, hi)

SumTokens(messages) == SumTokensRange(messages, 1, Len(messages))

\* the history messages of the prompt: everything between the system
\* message and the final human message
PromptHistory ==
    SubSeq(frame.messages_for_llm, 2, Len(frame.messages_for_llm) - 1)

\* the budget the specification states: window x fraction - reserved, the
\* configured threshold being the fraction itself (0.90 of the window)
StatedBudget ==
    (8 * settings.LLM_CONTEXT_WINDOW * settings.LLM_TOKEN_THRESHOLD_PERCENTAGE)
        \div 100
    - ApproxTokens(frame.system_message_content)

\* C1: for a budget >= 0 the history messages of the prompt are the most
\* recent stored turns (a contiguous suffix of the chronological history),
\* and the walk stopped at the first older turn that no longer fits.
Claim_C1_SuffixOfHistory ==
    (obs.composed /\ frame.max_history_tokens >= 0) =>
        LET full == frame.full_chat_history_from_redis
            n == Len(full)
            k == Len(obs.trimmed_src)
        IN /\ {obs.trimmed_src[j] : j \in 1..k} = (n - k + 1)..n
           /\ k < n =>
                SumTokens(SubSeq(full, n - k + 1, n))
                    + ApproxTokens(full[n - k].content)
                  > frame.max_history_tokens

\* C2: the history messages of the prompt are in chronological order, the
\* order in which get_chat_history returned them.
Claim_C2_ChronologicalOrder ==
    obs.composed =>
        \A i, j \in 1..Len(obs.trimmed_src) :
            i < j => obs.trimmed_src[i] < obs.trimmed_src[j]

\* C3: for a budget B >= 0 the approximate token cost of the history
\* messages of the prompt is at most B, for the budget the code computed
\* and for the budget the specification states.
Thm_C3_HistoryFitsBudget ==
    obs.composed =>
        /\ frame.max_history_tokens >= 0 =>
              SumTokens(PromptHistory) <= frame.max_history_tokens
        /\ StatedBudget >= 0 => SumTokens(PromptHistory) <= StatedBudget

Witness_C3 ==
    /\ obs.composed
    /\ frame.max_history_tokens >= 0
    /\ PromptHistory # <<>>
    /\ Len(PromptHistory) < Len(frame.full_chat_history_from_redis)

\* C4: with a budget <= 0 no stored history message is in the prompt.
Claim_C4_EmptyOnExhaustedBudget ==
    (obs.composed /\ frame.max_history_tokens <= 0) => PromptHistory = <<>>

\* C5: the history budget is window x threshold fraction - reserved, with
\* the configured threshold (0.90) taken as the fraction of the window.
Claim_C5_BudgetFormula ==
    obs.composed => frame.max_history_tokens = StatedBudget

\* the chronological history get_chat_history returns for a user
History(user_id) == GetChatHistory(chat_history[user_id], 0)

\* C6: after every add_message_to_history call the stored list holds
\* min(N, MAX_CHAT_HISTORY_LENGTH) entries, N being the number of appends
\* so far, and get_chat_history returns the min(N, MAX) most recently
\* appended messages, oldest first.
Thm_C6_HistoryCap ==
    \A u \in Users :
        /\ Len(chat_history[u]) =
              Min(Len(appended[u]), MAX_CHAT_HISTORY_LENGTH)
        /\ History(u) = LastN(appended[u], MAX_CHAT_HISTORY_LENGTH)

Witness_C6 ==
    \E u \in Users :
        /\ appends > 0
        /\ Len(appended[u]) > MAX_CHAT_HISTORY_LENGTH
        /\ Len(chat_history[u]) = MAX_CHAT_HISTORY_LENGTH

\* the timestamps add_message_to_history may have taken so far
Timestamps == {IsoFormat(t) : t \in 1..clock}

\* C7: when a turn has returned, the user's chronological history is the
\* history from before the turn followed by a human entry with the raw user
\* message and then an ai entry with the returned response text, cut to its
\* MAX_CHAT_HISTORY_LENGTH most recent entries.
Thm_C7_TurnAppendsHumanThenAi ==
    pc = "returned" =>
        \E t1, t2 \in Timestamps :
            History(frame.user_id) =
                LastN(GetChatHistory(obs.history_before, 0)
                        \o <<MessageData("human", frame.user_message_content,
                                         t1),
                             MessageData("ai", response.ai_response, t2)>>,
                      MAX_CHAT_HISTORY_LENGTH)

Witness_C7 ==
    /\ pc = "returned"
    /\ Len(obs.history_before) = MAX_CHAT_HISTORY_LENGTH
    /\ response.ai_response # ""

\* C8: in every turn that reached the Turn Recorder, both persistence
\* actions are attempted: once the history append was attempted the turn
\* does not end without the past-Q&A write having been attempted.
Claim_C8_BothWritesAttempted ==
    (pc \in {"returned", "raised"} /\ obs.append_attempted) =>
        obs.qa_attempted

\* C9: a Memory Store failure during a turn never propagates out of
\* process_chat_message.
Claim_C9_StoreFailureNotFatal ==
    obs.store_failed => pc # "raised"

SystemContent == frame.messages_for_llm[1].content

FinalContent == frame.messages_for_llm[Len(frame.messages_for_llm)].content

SourceDocuments == frame.all_source_documents_for_response

InSources(doc) == \E k \in 1..Len(SourceDocuments) : SourceDocuments[k] = doc

\* the part of the prompt a tier writes to: the past-Q&A tier the final
\* human message, the other tiers the system message
TierTarget(t) == IF t = 1 THEN FinalContent ELSE SystemContent

TierHeadings ==
    <<"AI's past response on ", "### General Knowledge:",
      "### Historical Context (Long-Term Memory):",
      "### Cognitive Knowledge:">>

\* the tier processed the fragments its query returned without an error
ProcessedCleanly(t) ==
    t = 1 => \A j \in 1..Len(obs.tier_documents[1]) :
                ~TimestampRaises(obs.tier_documents[1][j])

Thm_C12_KeywordGating ==
    pc \notin {"idle", "retrieve"} =>
        /\ 3 \in obs.tiers_queried <=>
              \E k \in 1..Len(keywords_for_historical_context) :
                  Contains(Lower(frame.user_message_content),
                           keywords_for_historical_context[k])
        /\ 3 \notin obs.tiers_queried =>
              /\ frame.history_context_str = ""
              /\ obs.tier_documents[3] = <<>>
              /\ \A k \in 1..Len(SourceDocuments) :
                    \A j \in 1..Len(LongTermDocuments) :
                        SourceDocuments[k].document.id # LongTermDocuments[j].id

Witness_C12 ==
    /\ pc = "invoke_llm"
    /\ frame.user_message_content = "What did we say BEFORE?"
    /\ 3 \in obs.tiers_queried
    /\ obs.tier_documents[3] # <<>>

\* C13: every past-Q&A fragment retrieved for a user's message was written
\* for that same user (its metadata user_id is the requesting user).
Claim_C13_PastQAUserSpecific ==
    pc = "invoke_llm" =>
        \A j \in 1..Len(obs.tier_documents[1]) :
            obs.tier_documents[1][j].document.metadata.user_id = frame.user_id

\* C14: the message sequence passed to the completion call is one system
\* message, then the budgeted history messages, then exactly one human
\* message for the current user turn, and nothing else.
Thm_C14_PromptLayout ==
    pc = "invoke_llm" =>
        LET m == frame.messages_for_llm
            n == Len(m)
            raw == frame.user_message_content
        IN /\ n = Len(frame.trimmed_history) + 2
           /\ m[1] = [type |-> "system",
                      content |-> frame.system_message_content]
           /\ \A i \in 2..(n - 1) :
                 /\ m[i] = frame.trimmed_history[i - 1]
                 /\ m[i].type \in {"human", "ai"}
           /\ m[n].type = "human"
           /\ Len(m[n].content) >= Len(raw)
           /\ SubSeq(m[n].content, Len(m[n].content) - Len(raw) + 1,
                     Len(m[n].content)) = raw

Witness_C14 ==
    /\ pc = "invoke_llm"
    /\ Len(frame.trimmed_history) >= 2
    /\ frame.trimmed_history[1].type # frame.trimmed_history[2].type

Claim_C16_EmptyTierEmptyBlock ==
    pc = "invoke_llm" =>
        /\ obs.tier_documents[2] = <<>> =>
              SystemContent = FormatSystemPrompt("", frame.history_context_str,
                                                 frame.cognitive_context_str)
        /\ obs.tier_documents[3] = <<>> => frame.history_context_str = ""
        /\ obs.tier_documents[4] = <<>> => frame.cognitive_context_str = ""

\* C16 as amended: the historical and cognitive tiers render as an empty
\* block when they have no fragment; the general tier then renders the
\* sentence "No specific RAG context provided."; a tier's heading is in the
\* system message exactly when the tier has a fragment.
Thm_C16_EmptyTierRendering ==
    pc = "invoke_llm" =>
        /\ obs.tier_documents[2] = <<>> =>
              SystemContent =
                  FormatSystemPrompt("No specific RAG context provided.",
                                     frame.history_context_str,
                                     frame.cognitive_context_str)
        /\ obs.tier_documents[3] = <<>> => frame.history_context_str = ""
        /\ obs.tier_documents[4] = <<>> => frame.cognitive_context_str = ""
        /\ \A t \in 2..4 :
              Contains(SystemContent, TierHeadings[t])
                <=> obs.tier_documents[t] # <<>>

Witness_C16 ==
    /\ pc = "invoke_llm"
    /\ obs.tier_documents[2] = <<>>
    /\ obs.tier_documents[3] = <<>>
    /\ obs.tier_documents[4] # <<>>

\* C17: a fragment a tier returned is in the prompt (the prefix of the user
\* message for the past-Q&A tier, the system message for the others)
\* exactly when it is in source_documents.
Claim_C17_SourcesMatchPrompt ==
    pc = "invoke_llm" =>
        \A t \in 1..4 :
            \A j \in 1..Len(obs.tier_documents[t]) :
                Contains(TierTarget(t),
                         obs.tier_documents[t][j].document.content)
                  <=> InSources(obs.tier_documents[t][j])

\* C18: under any interleaving of concurrent add_message_to_history calls
\* for one user (atomic LPUSH, then atomic LTRIM), no append is lost: when
\* the user's appends number at most MAX_CHAT_HISTORY_LENGTH, then once all
\* calls have completed the stored list holds every appended message, in
\* the order the pushes were applied.
Thm_C18_NoLostAppend ==
    (\A c \in Callers : calls[c].pc # "pushed") =>
        \A u \in Users :
            Len(appended[u]) <= MAX_CHAT_HISTORY_LENGTH =>
                /\ History(u) = appended[u]
                /\ chat_history[u] =
                      Reversed([i \in 1..Len(appended[u]) |->
                                   JsonDumps(appended[u][i])])

Witness_C18 ==
    /\ \A c \in Callers : calls[c].pc = "done"
    /\ \E c \in Callers :
          /\ calls[c].overlapped
          /\ Len(appended[calls[c].user_id]) <= MAX_CHAT_HISTORY_LENGTH
          /\ Len(chat_history[calls[c].user_id]) >= 2

\* C19: when the write of the new past-Q&A document fails, the failure is
\* swallowed: process_chat_message returns a ChatResponse carrying the
\* obtained response text, and the two history entries appended before the
\* write (human, then ai) are still the newest entries of the user's
\* history; the collection is left as it was.
Thm_C19_QAWriteFailureSwallowed ==
    obs.qa_failed =>
        /\ pc = "returned"
        /\ response = ChatResponse
        /\ response.ai_response = frame.ai_response_content
        /\ past_qa = obs.past_qa_before
        /\ LET h == History(frame.user_id)
           IN /\ Len(h) >= 2
              /\ h[Len(h) - 1].role = "human"
              /\ h[Len(h) - 1].content = frame.user_message_content
              /\ h[Len(h)].role = "ai"
              /\ h[Len(h)].content = response.ai_response

Witness_C19 ==
    /\ obs.qa_failed
    /\ pc = "returned"
    /\ ~obs.llm_failed
    /\ frame.past_ai_responses_for_prepend # <<>>

\* C20: each turn that reaches the Turn Recorder writes exactly one new
\* document to the past-Q&A collection: its content is the response
\* returned to the caller, its metadata question is the original user
\* message (without the tier-1 prefix) and its user_id the requesting user.
\* Stated for the turns that returned with no failure of the index write.
Claim_C20_OneQADocumentPerTurn ==
    (pc = "returned" /\ ~obs.qa_failed) =>
        /\ Len(past_qa) = Len(obs.past_qa_before) + 1
        /\ SubSeq(past_qa, 1, Len(obs.past_qa_before)) = obs.past_qa_before
        /\ LET doc == past_qa[Len(past_qa)]
           IN /\ doc.content = response.ai_response
              /\ doc.metadata.question = frame.user_message_content
              /\ doc.metadata.user_id = frame.user_id

\* the record of a user as get_current_context reads it
CurrentContext(user_id) == GetCurrentContext(user_context[ContextKey(user_id)])

\* C21 as stated: after any sequence of update_context writes for one
\* user, get_current_context returns, for every key ever written, the value
\* of the latest write of that key.
Claim_C21_EveryKeyLatestWrite ==
    \A u \in Users :
        \A k \in DOMAIN written[u] :
            /\ ~CurrentContext(u).none
            /\ k \in DOMAIN CurrentContext(u).mapping
            /\ CurrentContext(u).mapping[k] = written[u][k]

\* C21, amended: after any sequence of update_context writes for one user,
\* get_current_context returns, for every key the client ever wrote other
\* than updated_at, the value of the latest write of that key (keys of
\* earlier writes are kept), plus updated_at, which holds the store's write
\* time, and nothing else; update_context returns that same mapping.
Thm_C21_ContextMergeRoundTrip ==
    /\ \A u \in Users :
          /\ \A k \in DOMAIN written[u] \ {"updated_at"} :
                /\ ~CurrentContext(u).none
                /\ k \in DOMAIN CurrentContext(u).mapping
                /\ CurrentContext(u).mapping[k] = written[u][k]
          /\ ~CurrentContext(u).none =>
                DOMAIN CurrentContext(u).mapping =
                    DOMAIN written[u] \cup {"updated_at"}
    /\ last_call.op = "update_context" =>
          last_call.result = CurrentContext(last_call.user_id)

Witness_C21 ==
    /\ last_call.op = "update_context"
    /\ last_call.new_context_data = [k \in {"b"} |-> PyInt("2")]
    /\ DOMAIN last_call.result.mapping = {"a", "b", "updated_at"}
    /\ last_call.result.mapping["a"] = PyInt("1")
    /\ last_call.result.mapping["b"] = PyInt("2")

\* C22: after any successful update_context write the user's record holds
\* updated_at, and its value is the store's time of the latest write, also
\* when the client's data carries an updated_at field of its own.
Thm_C22_UpdatedAtIsWriteTime ==
    /\ \A u \in Users :
          DOMAIN user_context[ContextKey(u)] # {} =>
              /\ "updated_at" \in DOMAIN user_context[ContextKey(u)]
              /\ user_context[ContextKey(u)]["updated_at"] \in
                    {IsoFormat(t) : t \in 1..(clock - 1)}
    /\ last_call.op = "update_context" =>
          /\ last_call.now = IsoFormat(clock - 1)
          /\ "updated_at" \in
                DOMAIN user_context[ContextKey(last_call.user_id)]
          /\ user_context[ContextKey(last_call.user_id)]["updated_at"] =
                last_call.now
          /\ ~last_call.result.none
          /\ "updated_at" \in DOMAIN last_call.result.mapping
          /\ last_call.result.mapping["updated_at"] = PyStr(last_call.now)

Witness_C22 ==
    /\ last_call.op = "update_context"
    /\ last_call.n >= 2
    /\ "updated_at" \in DOMAIN last_call.new_context_data
    /\ last_call.result.mapping["updated_at"] = PyStr(last_call.now)

\* C23: delete_context(u) removes the user's context record and the
\* user's chat history: afterwards get_current_context(u) is None and
\* get_chat_history(u) is empty; it returns True iff at least one of the
\* two existed, and False (404 at the endpoint) with nothing changed
\* otherwise.
Thm_C23_DeleteRemovesBoth ==
    last_call.op = "delete_context" =>
        /\ CurrentContext(last_call.user_id).none
        /\ chat_history[last_call.user_id] = <<>>
        /\ History(last_call.user_id) = <<>>
        /\ last_call.deleted <=>
              (last_call.context_existed \/ last_call.history_existed)
        /\ last_call.status_code = (IF last_call.deleted THEN 204 ELSE 404)
        /\ ~last_call.deleted =>
              /\ user_context = last_call.context_before
              /\ chat_history = last_call.history_before

Witness_C23 ==
    /\ last_call.op = "delete_context"
    /\ last_call.context_existed
    /\ last_call.history_existed
    /\ last_call.deleted

\* C30: update_context with an empty mapping still writes: the record is
\* created or touched with a fresh updated_at, the mapping it returns (and
\* a following get_current_context reads) is not empty, and the
\* empty-data warning branch is taken by no call.
Thm_C30_EmptyUpdateStillWrites ==
    last_call.op = "update_context" =>
        /\ last_call.branch = "hset"
        /\ DOMAIN last_call.new_context_data = {} =>
              /\ ~last_call.result.none
              /\ "updated_at" \in DOMAIN last_call.result.mapping
              /\ last_call.result.mapping["updated_at"] =
                    PyStr(IsoFormat(clock - 1))
              /\ ~CurrentContext(last_call.user_id).none
              /\ DOMAIN CurrentContext(last_call.user_id).mapping # {}

Witness_C30 ==
    /\ last_call.op = "update_context"
    /\ DOMAIN last_call.new_context_data = {}
    /\ DOMAIN last_call.result.mapping = {"updated_at"}

\* the j-th smallest element of a set of numbers has rank j
Rank(set, x) == Cardinality({y \in set : y <= x})

\* C24: when the stored list holds undecodable entries, get_chat_history
\* does not raise: it returns exactly the decodable entries of the range
\* it read, oldest first, and omits only the undecodable ones.
Thm_C24_UndecodableEntriesSkipped ==
    last_call.op = "get_chat_history" =>
        LET raw == last_call.raw_messages
            read == IF last_call.limit = 0 THEN Len(raw)
                    ELSE Min(last_call.limit, Len(raw))
            chronological == [i \in 1..read |-> raw[read + 1 - i]]
            good == {i \in 1..read : "json" \in DOMAIN chronological[i]}
        IN /\ Len(last_call.result) = Cardinality(good)
           /\ \A i \in good :
                 last_call.result[Rank(good, i)] = chronological[i].json

Witness_C24 ==
    /\ last_call.op = "get_chat_history"
    /\ last_call.limit = 0
    /\ Len(last_call.raw_messages) = 3
    /\ last_call.raw_messages[2] = NotJson
    /\ Len(last_call.result) = 2
    /\ last_call.result[1].role = "human"
    /\ last_call.result[2].role = "ai"

InFlight(user_id) ==
    {c \in Callers : calls[c].pc = "pushed" /\ calls[c].user_id = user_id}

\* C28: in every reachable state under concurrent add_message_to_history
\* calls for one user, the stored list is at most MAX_CHAT_HISTORY_LENGTH
\* plus the number of calls that have executed LPUSH but not yet LTRIM
\* long; hence at most MAX_CHAT_HISTORY_LENGTH when no append is in flight.
Thm_C28_LengthBoundInFlight ==
    \A u \in Users :
        /\ Len(chat_history[u]) <=
              MAX_CHAT_HISTORY_LENGTH + Cardinality(InFlight(u))
        /\ InFlight(u) = {} =>
              Len(chat_history[u]) <= MAX_CHAT_HISTORY_LENGTH

Witness_C28 ==
    \E u \in Users :
        /\ Cardinality(InFlight(u)) >= 2
        /\ Len(chat_history[u]) =
              MAX_CHAT_HISTORY_LENGTH + Cardinality(InFlight(u))

\* C27: under any interleaving of concurrent chat turns for the same user,
\* each turn's human entry is appended to the stored history before that
\* turn's ai entry; entries of other turns may lie between them.
Thm_C27_HumanBeforeAi ==
    /\ \A c \in Callers :
          turns[c].ai_at > 0 =>
              /\ 0 < turns[c].human_at
              /\ turns[c].human_at < turns[c].ai_at
              /\ turns[c].ai_at <= Len(appended[turns[c].user_id])
              /\ appended[turns[c].user_id][turns[c].human_at].role =
                    "human"
              /\ appended[turns[c].user_id][turns[c].ai_at].role = "ai"
    /\ \A u \in Users :
          History(u) = LastN(appended[u], Len(chat_history[u]))

Witness_C27 ==
    \E c, d \in Callers :
        /\ c # d
        /\ turns[c].user_id = turns[d].user_id
        /\ turns[c].pc = "returned"
        /\ turns[d].pc = "returned"
        /\ turns[c].human_at < turns[d].human_at
        /\ turns[d].human_at < turns[c].ai_at
        /\ turns[c].ai_at < turns[d].ai_at

\* the roles of a chronological history
Roles(history) == [i \in 1..Len(history) |-> history[i].role]

\* C29: with no store failure and no concurrent turn for the same user,
\* after every completed chat turn the user's stored history (starting
\* empty, cap 100) has even length and alternates human, ai, starting with
\* human, also once the cap evicts entries.
Thm_C29_AlternatingHistory ==
    \A u \in SequentialUsers :
        (/\ turns[1].pc = "idle"
         /\ turns[1].completed >= 1
         /\ Len(appended[u]) = 2 * turns[1].completed) =>
            /\ Len(History(u)) =
                  Min(2 * turns[1].completed, MAX_CHAT_HISTORY_LENGTH)
            /\ Len(History(u)) % 2 = 0
            /\ \A i \in 1..Len(History(u)) :
                  Roles(History(u))[i] =
                      (IF i % 2 = 1 THEN "human" ELSE "ai")

Witness_C29 ==
    \E u \in SequentialUsers :
        /\ turns[1].pc = "idle"
        /\ 2 * turns[1].completed > MAX_CHAT_HISTORY_LENGTH
        /\ Len(appended[u]) = 2 * turns[1].completed
        /\ Len(chat_history[u]) = MAX_CHAT_HISTORY_LENGTH
        /\ History(u)[1].role = "human"

\* the step changes what the store holds for user b
StoreChanged(b) ==
    \/ chat_history'[b] # chat_history[b]
    \/ user_context'[ContextKey(b)] # user_context[ContextKey(b)]

\* the step is an operation issued for user b
IssuedFor(b) ==
    \/ last_call'.n # last_call.n /\ last_call'.user_id = b
    \/ \E c \in Callers : turns'[c] # turns[c] /\ turns'[c].user_id = b
    \/ appends' # appends /\ appended'[b] # appended[b]

\* C26: every Memory Store operation issued for a user A (update_context,
\* delete_context, add_message_to_history, the history appends of a chat
\* turn) leaves the context record and the chat history of every other
\* user B unchanged: a step changes only what is stored for the user it
\* was issued for, and no history key is another user's key or a context
\* key.
Thm_C26_CrossUserFrame ==
    [][ /\ \A a, b \in Users :
              /\ a # b => ChatHistoryKey(a) # ChatHistoryKey(b)
              /\ ChatHistoryKey(a) # ContextKey(b)
        /\ \A b \in Users : StoreChanged(b) => IssuedFor(b) ]_vars

Witness_C26 ==
    \E a, b \in Users :
        /\ a # b
        /\ last_call.op = "delete_context"
        /\ last_call.user_id = a
        /\ last_call.deleted
        /\ turns[1].pc = "returned"
        /\ turns[1].user_id = a
        /\ chat_history[b] # <<>>
        /\ DOMAIN user_context[ContextKey(b)] # {}

====
